---- MODULE Spec2Model ----
(***************************************************************************)
(* A model of sd-model-updater: the run loop of main.go, the resolution of *)
(* local files to catalog versions of update.go, and the download of       *)
(* client.go.                                                              *)
(*                                                                         *)
(* The Civitai catalog is the variable catalog: a list of version records. *)
(* A version record carries its own identifier ID (models.ModelVersion.ID, *)
(* the identifier of the version) and the identifier of the model it       *)
(* belongs to (models.ModelVersion.ModelID); both are int64 values of the  *)
(* same range, so a version identifier may or may not be the identifier of *)
(* some model.                                                             *)
(***************************************************************************)
EXTENDS Integers, Sequences, FiniteSets, TLC

\* ---------------------------------------------------------------- bounds
\* Largest number of version records in the catalog.
MaxCatalog == 3
\* Largest number of directory entries one walk visits.
MaxFiles == 2
\* Largest number of files in one version record.
MaxVerFiles == 2

\* Model identifiers and publication times the catalog draws from.
ModelIDs == {1, 2}
Times == {0, 1, 2}

VARIABLES
    catalog,     \* the remote catalog: Seq of [ModelID, PublishedAt]
    pc,          \* position of run(): "loop", "walk", "exit"
    mode,        \* kind of the target being/last processed: "none", "file", "dir"
    nWalked,     \* number of directory entries the current walk has visited
    ms,          \* findUpdatesFromDir: map id -> modelVersionList
    walkLog,     \* history of the inputs of the current target (see LogOf)
    found,       \* what the resolution of the last target produced
    exitCode     \* exit status of the process, -1 while running

rvars == <<catalog, pc, mode, nWalked, ms, walkLog, found, exitCode>>

\* Client.Download
VARIABLES
    ver,              \* ver.Files: Seq of [Format, Primary, BLAKE3]; DownloadURL is the index
    PreferredFormat,  \* cli.PreferredFormat
    dpc,              \* position of Download: "idle", "select", "get", "header", "write", "verify", "done"
    file,             \* index of the selected file, 0 for nil
    requested,        \* DownloadURL the GET was issued for, 0 for none
    hdr,              \* kind of the Content-Disposition header received, "none" before
    name,             \* params["filename"], as path components
    fs,               \* the files on disk: path -> content
    fs0,              \* the files on disk when Download was called
    body,             \* what the response body delivered
    derr,             \* the error Download returned
    status,           \* res.StatusCode of the response, 0 while there is none
    errStatus         \* res.Status carried in the text of the error, 0 for none

dvars == <<ver, PreferredFormat, dpc, file, requested, hdr, name, fs, fs0, body, derr,
           status, errStatus>>

\* run() with the Updates of a target, and Update.run
VARIABLES
    upc,          \* position of run(): "idle", "loop", "updates", "exit"
    umode,        \* kind of the target being/last processed: "none", "file", "dir"
    nUpdates,     \* number of Updates of the current target that have not run yet
    ulog,         \* what the last call of Update.run was given and did (see NoRun)
    report,       \* the line run() last printed about a failure, "none" for none
    interrupted,  \* a prompt of this run has been answered with an interrupt
    ucode,        \* exit status of the process, -1 while running
    cause         \* what made run() return an error: "none", "stat", "interrupt"

uvars == <<upc, umode, nUpdates, ulog, report, interrupted, ucode, cause>>

\* modelVersionList as a sort.Interface
VARIABLES
    list,      \* a modelVersionList
    sorted,    \* the list after sort.Sort(sort.Reverse(list)), <<>> before
    less       \* the last call of Less: [i, j, val], i = 0 for none

svars == <<list, sorted, less>>

vars == <<rvars, dvars, uvars, svars>>

\* ------------------------------------------------------------- the catalog
NoVersion == [ID |-> 0, ModelID |-> 0, Name |-> 0, PublishedAt |-> 0]
NoModel == [ID |-> 0, Name |-> 0, ModelVersions |-> <<>>]

\* The version record stored in slot i. Its ID is the slot number, its name
\* is unique in the catalog.
VersionAt(i) ==
    [ID |-> i, ModelID |-> catalog[i].ModelID, Name |-> i,
     PublishedAt |-> catalog[i].PublishedAt]

AllVersions == {VersionAt(i) : i \in 1..Len(catalog)}

RECURSIVE versionsFrom(_, _)
versionsFrom(i, id) ==
    IF i > Len(catalog) THEN <<>>
    ELSE IF catalog[i].ModelID = id THEN <<VersionAt(i)>> \o versionsFrom(i + 1, id)
    ELSE versionsFrom(i + 1, id)

\* The version list the catalog holds for model id, in catalog order.
VersionsOfModel(id) == versionsFrom(1, id)

\* Client.GetModelVersion: hash h is the digest of the file of version h;
\* hash 0 is a digest the catalog does not know. net: the transport works.
GetModelVersion(hash, net) ==
    IF ~net THEN [err |-> "transport", val |-> NoVersion]
    ELSE IF hash \in 1..Len(catalog) THEN [err |-> "nil", val |-> VersionAt(hash)]
    ELSE [err |-> "404", val |-> NoVersion]

\* Client.GetModel: the model with identifier id, 404 when there is none.
GetModel(id, net) ==
    IF ~net THEN [err |-> "transport", val |-> NoModel]
    ELSE IF VersionsOfModel(id) # <<>>
    THEN [err |-> "nil",
          val |-> [ID |-> id, Name |-> id, ModelVersions |-> VersionsOfModel(id)]]
    ELSE [err |-> "404", val |-> NoModel]

\* err.(interface{ Code() int }) with Code() == http.StatusNotFound
IsNotFound(err) == err = "404"

\* ------------------------------------------------------------ local files
modelFileExtensions == {".safetensors", ".ckpt", ".pt"}

isModelFile(f) == f.ext \in modelFileExtensions

\* A directory entry: its extension, whether it can be read, and the digest
\* of its content (which is of no account for an entry that is not read).
LocalFiles ==
    [ext : {".safetensors"}, readable : {TRUE}, hash : 0..Len(catalog)]
    \cup {[ext |-> ".safetensors", readable |-> FALSE, hash |-> 0],
          [ext |-> ".txt", readable |-> TRUE, hash |-> 0]}

fileHash(f) ==
    IF f.readable THEN [err |-> "nil", val |-> f.hash] ELSE [err |-> "io", val |-> 0]

\* ------------------------------------------------------------- update.go
After(t, u) == t > u
Before(t, u) == t < u

EmptyMap == [n \in {} |-> NoVersion]

\* for _, v := range vs { if v.PublishedAt.After(cur.PublishedAt) { c[v.Name] = v } }
RECURSIVE candidatesOf(_, _, _)
candidatesOf(vs, cur, acc) ==
    IF vs = <<>> THEN acc
    ELSE LET v == Head(vs) IN
         candidatesOf(Tail(vs), cur,
                      IF After(v.PublishedAt, cur.PublishedAt)
                      THEN (v.Name :> v) @@ acc ELSE acc)

NoUpdate == [ModelName |-> 0, CurrentVersion |-> 0, Candidates |-> EmptyMap]

\* The identifier findUpdate and findUpdatesFromDir take from a version
\* record to ask for its model and to group by.
modelKey(v) == v.ID

findUpdate(f, netV, netM) ==
    LET h == fileHash(f) IN
    IF h.err # "nil" THEN [err |-> h.err, cur |-> NoVersion, val |-> NoUpdate]
    ELSE LET c == GetModelVersion(h.val, netV) IN
    IF c.err # "nil" THEN [err |-> c.err, cur |-> NoVersion, val |-> NoUpdate]
    ELSE LET m == GetModel(modelKey(c.val), netM) IN
    IF m.err # "nil" THEN [err |-> m.err, cur |-> c.val, val |-> NoUpdate]
    ELSE [err |-> "nil", cur |-> c.val,
          val |-> [ModelName |-> m.val.Name, CurrentVersion |-> c.val.Name,
                   Candidates |-> candidatesOf(m.val.ModelVersions, c.val, EmptyMap)]]

\* modelVersionList.Less with the comparison turned round.
LessAfter(m, i, j) == After(m[i].PublishedAt, m[j].PublishedAt)

\* modelVersionList.Less
Less(m, i, j) == Before(m[i].PublishedAt, m[j].PublishedAt)

PermSeqs(s) ==
    IF s = <<>> THEN {<<>>}
    ELSE {[i \in 1..Len(s) |-> s[p[i]]] : p \in Permutations(1..Len(s))}

\* sort.Sort(sort.Reverse(m)): sort.Sort is not stable, so every ordering of
\* m in which no element is Less (reversed) than an earlier one can result.
SortReverse(m) ==
    {s \in PermSeqs(m) : \A i, j \in 1..Len(s) : i < j => ~Less(s, i, j)}

\* walkFn with a digest the catalog does not know treated as every other
\* failure of the lookup: the callback returns the error.
walkFnNotFoundFatal(f, walkOK, netV, m) ==
    IF ~walkOK THEN [step |-> "err", err |-> "io", ms |-> m]
    ELSE IF ~isModelFile(f) THEN [step |-> "skip", err |-> "nil", ms |-> m]
    ELSE LET h == fileHash(f) IN
    IF h.err # "nil" THEN [step |-> "err", err |-> h.err, ms |-> m]
    ELSE LET c == GetModelVersion(h.val, netV) IN
    IF c.err # "nil" THEN [step |-> "err", err |-> c.err, ms |-> m]
    ELSE LET k == modelKey(c.val)
             old == IF k \in DOMAIN m THEN m[k] ELSE <<>>
         IN [step |-> "nil", err |-> "nil",
             ms |-> (k :> Append(old, c.val)) @@ m]

\* The walk callback of findUpdatesFromDir for one directory entry:
\* step "nil" (version appended to ms), "skip" (not a model file),
\* "notfound" (digest unknown, walk continues) or "err" (walk aborted).
walkFn(f, walkOK, netV, m) ==
    IF ~walkOK THEN [step |-> "err", err |-> "io", ms |-> m]
    ELSE IF ~isModelFile(f) THEN [step |-> "skip", err |-> "nil", ms |-> m]
    ELSE LET h == fileHash(f) IN
    IF h.err # "nil" THEN [step |-> "err", err |-> h.err, ms |-> m]
    ELSE LET c == GetModelVersion(h.val, netV) IN
    IF c.err # "nil"
    THEN IF IsNotFound(c.err) THEN [step |-> "notfound", err |-> "nil", ms |-> m]
         ELSE [step |-> "err", err |-> c.err, ms |-> m]
    ELSE LET k == modelKey(c.val)
             old == IF k \in DOMAIN m THEN m[k] ELSE <<>>
         IN [step |-> "nil", err |-> "nil",
             ms |-> (k :> Append(old, c.val)) @@ m]

\* One iteration of the loop over ms (update.go 157-181) for the group id,
\* given the outcome of the two sorts: the Update it appends, if any.
groupUpdate(model, versions, sortedModelVersions) ==
    LET cur == versions[1]
        candidates == candidatesOf(sortedModelVersions, cur, EmptyMap)
    IN [ModelName |-> model.Name, CurrentVersion |-> cur.Name,
        Candidates |-> candidates]

\* The Updates one group can produce (none when it has no candidates).
groupUpdates(id, m) ==
    LET model == GetModel(id, TRUE).val IN
    {groupUpdate(model, vs, mvs) :
        vs \in SortReverse(m[id]), mvs \in SortReverse(model.ModelVersions)}

\* The results findUpdatesFromDir can return after the walk filled m:
\* failing: the groups whose GetModel call meets a transport failure.
RECURSIVE collect(_, _, _)
collect(order, pick, acc) ==
    IF order = <<>> THEN acc
    ELSE LET u == pick[Head(order)] IN
         collect(Tail(order), pick,
                 IF DOMAIN u.Candidates # {} THEN Append(acc, u) ELSE acc)

SetToSeqs(S) ==
    IF S = {} THEN {<<>>}
    ELSE {s \in [1..Cardinality(S) -> S] : \A i, j \in 1..Cardinality(S) : i # j => s[i] # s[j]}

\* update.go 156-183 with a model whose version list cannot be fetched
\* passed over.
resolveGroupsSkipFailed(m, failing) ==
    LET ids == {id \in DOMAIN m : GetModel(id, id \notin failing).err = "nil"}
    IN {[err |-> "nil", updates |-> collect(order, pick, <<>>)] :
           order \in SetToSeqs(ids),
           pick \in {p \in [ids -> UNION {groupUpdates(id, m) : id \in ids}] :
                        \A id \in ids : p[id] \in groupUpdates(id, m)}}

resolveGroups(m, failing) ==
    LET ids == DOMAIN m
        errs == {GetModel(id, id \notin failing).err : id \in ids} \ {"nil"}
    IN IF errs # {}
       THEN {[err |-> e, updates |-> <<>>] : e \in errs}
       ELSE {[err |-> "nil", updates |-> collect(order, pick, <<>>)] :
                order \in SetToSeqs(ids),
                pick \in {p \in [ids -> UNION {groupUpdates(id, m) : id \in ids}] :
                             \A id \in ids : p[id] \in groupUpdates(id, m)}}

\* ------------------------------------------------------------- main.go run
NoFound == [kind |-> "none", err |-> "nil", cur |-> NoVersion, updates |-> <<>>]

\* History of what the current target was given, taken from the inputs and
\* not from what the code made of them.
\*   last: the entry just handled: "known" (readable model file whose digest
\*         the catalog answers for), "unknown" (readable model file whose
\*         digest the catalog answers 404 for), "other", "none"
\*   resolved: number of "known" entries handled so far
\*   afterUnknown: 0 no "unknown" entry yet, 1 one was met, 2 a "known"
\*         entry was handled after one
\*   failure: the walk met an entry that cannot be resolved for a reason
\*         other than a 404 of the catalog, or the version list of a
\*         model could not be fetched
NoLog == [last |-> "none", resolved |-> 0, afterUnknown |-> 0, failure |-> FALSE]

\* The entry cannot be walked, or is a model file that cannot be read or
\* whose lookup meets a failure of the transport.
InputFails(f, walkOK, netV) ==
    ~walkOK \/ (isModelFile(f) /\ (~f.readable \/ ~netV))

InputClass(f, isModel, walkOK, netV) ==
    IF walkOK /\ isModel /\ f.readable /\ netV
    THEN IF f.hash \in 1..Len(catalog) THEN "known" ELSE "unknown"
    ELSE "other"

LogOf(log, class) ==
    [last |-> class,
     resolved |-> IF class = "known" THEN log.resolved + 1 ELSE log.resolved,
     afterUnknown |->
        IF class = "unknown" /\ log.afterUnknown = 0 THEN 1
        ELSE IF class = "known" /\ log.afterUnknown = 1 THEN 2
        ELSE log.afterUnknown,
     failure |-> log.failure]

Catalogs ==
    UNION {[1..n -> [ModelID : ModelIDs, PublishedAt : Times]] : n \in 1..MaxCatalog}

\* What one call of Update.run was given and did.
\*   ran: Update.run has been called for the current target
\*   cands: the names of the candidates of the Update
\*   answer: what the prompt was answered: "none" (no prompt), "yes", "no",
\*           "chosen" (a selection, possibly empty), "interrupt", "ioerr"
\*   selected: the names chosen in the multi-select, in the order returned
\*   prompts: the prompts asked, in order
\*   attempted: the names Download was called for, in order
\*   fetched: the names Download returned nil for
\*   said: the line printed on return without a download
\*   err: the error returned
NoRun ==
    [ran |-> FALSE, cands |-> {}, answer |-> "none", selected |-> <<>>, prompts |-> <<>>,
     attempted |-> <<>>, fetched |-> {}, said |-> "none", err |-> "nil"]

RunnerIdle ==
    /\ upc = "idle"
    /\ umode = "none"
    /\ nUpdates = 0
    /\ ulog = NoRun
    /\ report = "none"
    /\ interrupted = FALSE
    /\ ucode = -1
    /\ cause = "none"

SortIdle ==
    /\ list = <<>>
    /\ sorted = <<>>
    /\ less = [i |-> 0, j |-> 0, val |-> FALSE]

DownloadIdle ==
    /\ ver = <<>>
    /\ PreferredFormat = "safetensor"
    /\ dpc = "idle"
    /\ file = 0
    /\ requested = 0
    /\ hdr = "none"
    /\ name = <<>>
    /\ fs = <<>>
    /\ fs0 = <<>>
    /\ body = [streamed |-> "none", content |-> "none"]
    /\ derr = "nil"
    /\ status = 0
    /\ errStatus = 0

Init ==
    /\ DownloadIdle
    /\ RunnerIdle
    /\ SortIdle
    /\ catalog \in Catalogs
    /\ pc = "loop"
    /\ mode = "none"
    /\ nWalked = 0
    /\ ms = EmptyMap
    /\ walkLog = NoLog
    /\ found = NoFound
    /\ exitCode = -1

\* main.go 81-84: os.Stat of the target fails, run returns the error.
TargetMissing ==
    /\ pc = "loop"
    /\ pc' = "exit"
    /\ exitCode' = 1
    /\ found' = NoFound
    /\ ms' = EmptyMap
    /\ walkLog' = NoLog
    /\ UNCHANGED <<catalog, mode, nWalked>>
    /\ UNCHANGED <<dvars, uvars, svars>>

\* main.go 88-99: what run does with the result of findUpdate: where it
\* goes next and what it reports.
afterFindUpdate(err) ==
    IF err = "nil" THEN [pc |-> "loop", kind |-> "updates"]
    ELSE IF IsNotFound(err) THEN [pc |-> "loop", kind |-> "notfound"]
    ELSE [pc |-> "loop", kind |-> "failed"]

\* main.go 86-99: a target that is a file.
FileTarget ==
    /\ pc = "loop"
    /\ \E f \in LocalFiles, netV, netM \in BOOLEAN :
         LET r == findUpdate(f, netV, netM)
             a == afterFindUpdate(r.err)
         IN /\ found' = [kind |-> a.kind, err |-> r.err, cur |-> r.cur,
                         updates |-> IF r.err = "nil" THEN <<r.val>> ELSE <<>>]
            /\ pc' = a.pc
            /\ exitCode' = IF a.pc = "exit" THEN 1 ELSE exitCode
            /\ walkLog' = LogOf(NoLog, InputClass(f, TRUE, TRUE, netV))
    /\ mode' = "file"
    /\ ms' = EmptyMap
    /\ UNCHANGED <<catalog, nWalked>>
    /\ UNCHANGED <<dvars, uvars, svars>>

\* main.go 108-111 and update.go 117-120: a target that is a directory.
DirTarget ==
    /\ pc = "loop"
    /\ pc' = "walk"
    /\ mode' = "dir"
    /\ nWalked' = 0
    /\ ms' = EmptyMap
    /\ walkLog' = NoLog
    /\ found' = NoFound
    /\ UNCHANGED <<catalog, exitCode>>
    /\ UNCHANGED <<dvars, uvars, svars>>

\* update.go 120-151: the walk visits one more entry.
WalkFile ==
    /\ pc = "walk"
    /\ nWalked < MaxFiles
    /\ \E f \in LocalFiles, walkOK, netV \in BOOLEAN :
         LET r == walkFn(f, walkOK, netV, ms) IN
         /\ walkLog' = [LogOf(walkLog, InputClass(f, isModelFile(f), walkOK, netV))
                           EXCEPT !.failure = InputFails(f, walkOK, netV)]
         /\ ms' = r.ms
         /\ IF r.step = "err"
            THEN /\ pc' = "loop"
                 /\ nWalked' = 0
                 /\ found' = [kind |-> "failed", err |-> r.err, cur |-> NoVersion,
                              updates |-> <<>>]
            ELSE /\ pc' = "walk"
                 /\ nWalked' = nWalked + 1
                 /\ found' = found
    /\ UNCHANGED <<catalog, mode, exitCode>>
    /\ UNCHANGED <<dvars, uvars, svars>>

\* update.go 152-183 and main.go 112-115: the walk is over.
WalkEnd ==
    /\ pc = "walk"
    /\ \E failing \in SUBSET DOMAIN ms :
         /\ \E r \in resolveGroups(ms, failing) :
              found' = [kind |-> IF r.err = "nil" THEN "updates" ELSE "failed",
                        err |-> r.err, cur |-> NoVersion, updates |-> r.updates]
         /\ walkLog' = [walkLog EXCEPT
                          !.last = "none",
                          !.failure = \E id \in DOMAIN ms : GetModel(id, id \notin failing).err # "nil"]
    /\ pc' = "loop"
    /\ nWalked' = 0
    /\ UNCHANGED <<catalog, mode, ms, exitCode>>
    /\ UNCHANGED <<dvars, uvars, svars>>

\* main.go 129: every target was processed.
RunReturn ==
    /\ pc = "loop"
    /\ mode # "none"
    /\ pc' = "exit"
    /\ exitCode' = 0
    /\ found' = NoFound
    /\ ms' = EmptyMap
    /\ walkLog' = NoLog
    /\ UNCHANGED <<catalog, mode, nWalked>>
    /\ UNCHANGED <<dvars, uvars, svars>>

Next == TargetMissing \/ FileTarget \/ DirTarget \/ WalkFile \/ WalkEnd \/ RunReturn

Spec == Init /\ [][Next]_vars

\* ------------------------------------------------------------- client.go
\* strings.ToLower on the strings of the model.
ToLower(s) ==
    CASE s = "SafeTensor" -> "safetensor"
      [] s = "Pickle" -> "pickle"
      [] s = "Other" -> "other"
      [] s = "AB12" -> "ab12"
      [] OTHER -> s

\* hex.EncodeToString(hash.Sum(nil)) of the BLAKE3 hash of a content.
Blake3Hex(content) ==
    CASE content = "A" -> "ab12"
      [] content = "B" -> "cd34"
      [] OTHER -> "0000"

\* main.go 59: the -format flag accepts these two values only.
PreferredFormats == {"safetensor", "pickle"}

FileRecords == [Format : {"SafeTensor", "Pickle", "Other"}, Primary : BOOLEAN,
                BLAKE3 : {"AB12", "cd34"}]

\* client.go 75-82 with the test of file == nil dropped: a primary file
\* replaces a file of the preferred format found before it.
RECURSIVE selectLoopPrimaryWins(_, _, _, _)
selectLoopPrimaryWins(files, i, pref, sel) ==
    IF i > Len(files) THEN sel
    ELSE LET f == files[i]
             s1 == IF ToLower(f.Format) = pref THEN i ELSE sel
             s2 == IF f.Primary THEN i ELSE s1
         IN selectLoopPrimaryWins(files, i + 1, pref, s2)

selectFilePrimaryWins(files, pref) == selectLoopPrimaryWins(files, 1, pref, 0)

\* client.go 75-82 without the fallback to the primary file.
RECURSIVE selectLoopNoPrimary(_, _, _, _)
selectLoopNoPrimary(files, i, pref, sel) ==
    IF i > Len(files) THEN sel
    ELSE selectLoopNoPrimary(files, i + 1, pref,
                             IF ToLower(files[i].Format) = pref THEN i ELSE sel)

selectFileNoPrimary(files, pref) == selectLoopNoPrimary(files, 1, pref, 0)

\* client.go 75-82: the loop over ver.Files; sel is the index held by file.
RECURSIVE selectLoop(_, _, _, _)
selectLoop(files, i, pref, sel) ==
    IF i > Len(files) THEN sel
    ELSE LET f == files[i]
             s1 == IF ToLower(f.Format) = pref THEN i ELSE sel
             s2 == IF f.Primary /\ s1 = 0 THEN i ELSE s1
         IN selectLoop(files, i + 1, pref, s2)

\* client.go 74-82: the file Download selects, 0 for nil.
selectFile(files, pref) == selectLoop(files, 1, pref, 0)

StatusOK == 200
Statuses == {200, 404, 500}

\* client.go 97 with only the server errors refused.
statusFailsServerOnly(code) == code >= 500

\* client.go 97: res.StatusCode != http.StatusOK
statusFails(code) == code # StatusOK

\* Paths are sequences of components. The destination directory and the
\* directories that exist.
dir == <<"sd", "models">>
Dirs == {<<>>, <<"sd">>, <<"sd", "models">>}

\* What the response can carry as Content-Disposition.
\*   absent: no header; malformed: not a media type;
\*   plain: "attachment" with no filename parameter;
\*   named: "attachment; filename=..." with the name given as components.
Headers ==
    {[kind |-> "absent", filename |-> <<>>],
     [kind |-> "malformed", filename |-> <<>>],
     [kind |-> "plain", filename |-> <<>>],
     [kind |-> "named", filename |-> <<"m.safetensors">>],
     [kind |-> "named", filename |-> <<"..", "evil">>],
     [kind |-> "named", filename |-> <<"sub", "m.pt">>]}

\* mime.ParseMediaType(res.Header.Get("Content-Disposition")), params["filename"]
ParseMediaType(h) ==
    IF h.kind \in {"absent", "malformed"} THEN [err |-> "mime", filename |-> <<>>]
    ELSE [err |-> "nil", filename |-> h.filename]

\* filepath.Join(dir, name): the joined path, cleaned.
RECURSIVE Clean(_, _)
Clean(done, rest) ==
    IF rest = <<>> THEN done
    ELSE IF Head(rest) = ".."
    THEN Clean(IF done = <<>> THEN <<>> ELSE SubSeq(done, 1, Len(done) - 1), Tail(rest))
    ELSE Clean(Append(done, Head(rest)), Tail(rest))

Join(d, n) == Clean(<<>>, d \o n)

Parent(path) == IF path = <<>> THEN <<>> ELSE SubSeq(path, 1, Len(path) - 1)

\* os.Stat(path) returns no error.
Exists(disk, path) == path \in Dirs \/ path \in DOMAIN disk

\* os.Remove(path) of a file.
Remove(disk, path) == [q \in DOMAIN disk \ {path} |-> disk[q]]

\* What the body delivers: all of a content, or a part of it before the
\* read fails (connection lost, context cancelled).
Bodies == [streamed : {"complete", "partial"}, content : {"A", "B"}]

Written(b) == IF b.streamed = "complete" THEN b.content ELSE "part"

\* writeFile without the os.Stat test: os.Create truncates what is there.
writeFileNoStat(disk, path, b, createOK) ==
    IF ~createOK \/ path \in Dirs \/ Parent(path) \notin Dirs
    THEN [err |-> "create", fs |-> disk]
    ELSE [err |-> IF b.streamed = "complete" THEN "nil" ELSE "copy",
          fs |-> (path :> Written(b)) @@ disk]

\* client.go 126-141 writeFile: createOK: os.Create is permitted.
writeFile(disk, path, b, createOK) ==
    IF Exists(disk, path) THEN [err |-> "ErrExist", fs |-> disk]
    ELSE IF ~createOK \/ Parent(path) \notin Dirs
    THEN [err |-> "create", fs |-> disk]
    ELSE [err |-> IF b.streamed = "complete" THEN "nil" ELSE "copy",
          fs |-> (path :> Written(b)) @@ disk]

\* client.go 119-123 with the file left in place on a mismatch.
verifyKeepsFile(disk, path, b, declared) ==
    IF Blake3Hex(b.content) # ToLower(declared)
    THEN [err |-> "ErrFileHashNotMatch", fs |-> disk]
    ELSE [err |-> "nil", fs |-> disk]

\* client.go 119-123: the comparison of the digests.
verify(disk, path, b, declared) ==
    IF Blake3Hex(b.content) # ToLower(declared)
    THEN [err |-> "ErrFileHashNotMatch", fs |-> Remove(disk, path)]
    ELSE [err |-> "nil", fs |-> disk]

dest == Join(dir, name)

VerFiles == UNION {[1..n -> FileRecords] : n \in 0..MaxVerFiles}

\* The files that may be on disk before the download.
RunIdle ==
    /\ catalog = <<>>
    /\ pc = "exit"
    /\ mode = "none"
    /\ nWalked = 0
    /\ ms = EmptyMap
    /\ walkLog = NoLog
    /\ found = NoFound
    /\ exitCode = -1

InitDownload ==
    /\ RunIdle
    /\ RunnerIdle
    /\ SortIdle
    /\ ver \in VerFiles
    /\ PreferredFormat \in PreferredFormats
    /\ dpc = "select"
    /\ file = 0
    /\ requested = 0
    /\ hdr = "none"
    /\ name = <<>>
    /\ fs \in UNION {[S -> {"old"}] :
                       S \in SUBSET {Join(dir, <<"m.safetensors">>), Join(dir, <<"..", "evil">>)}}
    /\ fs0 = fs
    /\ body = [streamed |-> "none", content |-> "none"]
    /\ derr = "nil"
    /\ status = 0
    /\ errStatus = 0

\* client.go 74-85
DownloadSelect ==
    /\ dpc = "select"
    /\ file' = selectFile(ver, PreferredFormat)
    /\ IF file' = 0
       THEN dpc' = "done" /\ derr' = "ErrFileNotFound"
       ELSE dpc' = "get" /\ derr' = derr
    /\ UNCHANGED <<ver, PreferredFormat, requested, hdr, name, fs, fs0, body, status, errStatus>>
    /\ UNCHANGED <<rvars, uvars, svars>>

\* client.go 87-99: the GET and the test of the status.
DownloadGet ==
    /\ dpc = "get"
    /\ requested' = file
    /\ \E netOK \in BOOLEAN, code \in Statuses :
         IF ~netOK
         THEN dpc' = "done" /\ derr' = "transport" /\ UNCHANGED <<status, errStatus>>
         ELSE /\ status' = code
              /\ IF statusFails(code)
                 THEN dpc' = "done" /\ derr' = "ErrGetFailure" /\ errStatus' = code
                 ELSE dpc' = "header" /\ derr' = derr /\ errStatus' = errStatus
    /\ UNCHANGED <<ver, PreferredFormat, file, hdr, name, fs, fs0, body>>
    /\ UNCHANGED <<rvars, uvars, svars>>

\* client.go 101-105
DownloadHeader ==
    /\ dpc = "header"
    /\ \E h \in Headers :
         LET r == ParseMediaType(h) IN
         /\ hdr' = h.kind
         /\ IF r.err # "nil"
            THEN dpc' = "done" /\ derr' = "ErrNoFilename" /\ name' = name
            ELSE dpc' = "write" /\ derr' = derr /\ name' = r.filename
    /\ UNCHANGED <<ver, PreferredFormat, file, requested, fs, fs0, body, status, errStatus>>
    /\ UNCHANGED <<rvars, uvars, svars>>

\* client.go 113-118
DownloadWrite ==
    /\ dpc = "write"
    /\ \E b \in Bodies, createOK \in BOOLEAN :
         LET r == writeFile(fs, dest, b, createOK) IN
         /\ fs' = r.fs
         /\ body' = IF r.err \in {"nil", "copy"} THEN b ELSE body
         /\ IF r.err # "nil"
            THEN dpc' = "done" /\ derr' = r.err
            ELSE dpc' = "verify" /\ derr' = derr
    /\ UNCHANGED <<ver, PreferredFormat, file, requested, hdr, name, fs0, status, errStatus>>
    /\ UNCHANGED <<rvars, uvars, svars>>

\* client.go 119-123
DownloadVerify ==
    /\ dpc = "verify"
    /\ LET r == verify(fs, dest, body, ver[file].BLAKE3) IN
         /\ fs' = r.fs
         /\ derr' = r.err
    /\ dpc' = "done"
    /\ UNCHANGED <<ver, PreferredFormat, file, requested, hdr, name, fs0, body, status, errStatus>>
    /\ UNCHANGED <<rvars, uvars, svars>>

NextDownload ==
    DownloadSelect \/ DownloadGet \/ DownloadHeader \/ DownloadWrite \/ DownloadVerify

SpecDownload == InitDownload /\ [][NextDownload]_vars

\* ------------------------------------------------------ resolution claims
Range(f) == {f[x] : x \in DOMAIN f}

\* The versions the local files of the walked directory resolved to.
LocalVersions == UNION {Range(ms[k]) : k \in DOMAIN ms}

LocalOf(M) == {v \in LocalVersions : v.ModelID = M}

\* The versions of model M published strictly after time t.
NewerVersions(M, t) == {v \in AllVersions : v.ModelID = M /\ v.PublishedAt > t}

NewestLocalTime(M) ==
    CHOOSE t \in Times :
        /\ \E v \in LocalOf(M) : v.PublishedAt = t
        /\ \A v \in LocalOf(M) : v.PublishedAt <= t

UpdatesFor(M) == {i \in DOMAIN found.updates : found.updates[i].ModelName = M}

\* A file target whose digest resolved to found.cur, with no transport failure.
FileResolved ==
    /\ pc = "loop" /\ mode = "file"
    /\ found.cur # NoVersion /\ found.err # "transport"

\* A directory target whose walk and lookups met no I/O or transport failure.
DirResolved ==
    /\ pc = "loop" /\ mode = "dir"
    /\ found.kind \in {"updates", "failed"}
    /\ found.err \notin {"transport", "io"}

\* C1: findUpdate of a file that resolves to version cur returns an Update
\* whose candidates are exactly the versions of the model cur.ModelID that
\* were published strictly after cur.
C1_ResolveOneCandidates ==
    FileResolved =>
        /\ found.kind = "updates"
        /\ Range(found.updates[1].Candidates)
              = NewerVersions(found.cur.ModelID, found.cur.PublishedAt)

\* C2: when local files of a directory resolve to versions of one model with
\* different publication times, one Update is computed for that model, its
\* current version is the newest local one, and none of its candidates is
\* as old as or older than the newest local version.
C2_NewestLocalIsCurrent ==
    DirResolved =>
        \A M \in ModelIDs :
            (\E v, w \in LocalOf(M) : v.PublishedAt # w.PublishedAt) =>
                /\ found.kind = "updates"
                /\ Cardinality(UpdatesFor(M)) <= 1
                /\ NewerVersions(M, NewestLocalTime(M)) # {} => UpdatesFor(M) # {}
                /\ \A i \in UpdatesFor(M) :
                      /\ \E v \in LocalOf(M) :
                            /\ v.PublishedAt = NewestLocalTime(M)
                            /\ found.updates[i].CurrentVersion = v.Name
                      /\ \A c \in Range(found.updates[i].Candidates) :
                            /\ c.PublishedAt > NewestLocalTime(M)
                            /\ c \notin LocalVersions

\* C3: findUpdatesFromDir returns one Update for each model that has a
\* version newer than the newest local one, none for any other model, and
\* never an Update with an empty Candidates map.
C3_OneUpdatePerOutdatedModel ==
    DirResolved =>
        /\ found.kind = "updates"
        /\ \A i \in DOMAIN found.updates : DOMAIN found.updates[i].Candidates # {}
        /\ \A M \in ModelIDs :
              Cardinality(UpdatesFor(M)) =
                 IF LocalOf(M) # {} /\ NewerVersions(M, NewestLocalTime(M)) # {}
                 THEN 1 ELSE 0

RECURSIVE TotalLen(_, _)
TotalLen(m, keys) ==
    IF keys = {} THEN 0
    ELSE LET k == CHOOSE x \in keys : TRUE IN Len(m[k]) + TotalLen(m, keys \ {k})

\* C4: a file whose digest the catalog does not know never ends the run. In
\* file mode the target is reported as not found and run stays in its loop;
\* in directory mode the walk goes on with ms as it was, and every entry the
\* catalog knows, before or after the unknown one, is in ms.
C4_NotFoundNeverAborts ==
    /\ []((mode = "dir" /\ pc # "exit" /\ found.kind # "failed")
            => TotalLen(ms, DOMAIN ms) = walkLog.resolved)
    /\ [][walkLog'.last = "unknown" =>
            /\ exitCode' = -1
            /\ IF mode' = "dir"
               THEN pc' = "walk" /\ ms' = ms /\ nWalked' = nWalked + 1
               ELSE pc' = "loop" /\ found'.kind = "notfound"]_vars

\* A walk that met an unknown digest, resolved a later entry and returned
\* an Update for it.
C4_Witness ==
    /\ pc = "loop" /\ mode = "dir"
    /\ walkLog.afterUnknown = 2
    /\ found.kind = "updates" /\ found.updates # <<>>

\* -------------------------------------------------------- download claims
\* Equality of two strings up to case.
EqualFold(a, b) == ToLower(a) = ToLower(b)

PreferredFiles == {i \in DOMAIN ver : EqualFold(ver[i].Format, PreferredFormat)}
PrimaryFiles == {i \in DOMAIN ver : ver[i].Primary}

Selected == dpc \notin {"idle", "select"}

\* C5: Download selects a file of the preferred format (compared without
\* regard to case) when the version has one, whichever file is primary and
\* in whatever order; else a primary file; else it fails with
\* ErrFileNotFound and no request is issued.
C5_FileSelection ==
    Selected =>
        IF PreferredFiles # {} THEN file \in PreferredFiles
        ELSE IF PrimaryFiles # {} THEN file \in PrimaryFiles
        ELSE file = 0 /\ dpc = "done" /\ derr = "ErrFileNotFound" /\ requested = 0

\* A file of the preferred format, written in another case, is followed by
\* a primary file of another format, and is the one selected.
C5_Witness ==
    /\ Selected
    /\ Len(ver) = 2
    /\ EqualFold(ver[1].Format, PreferredFormat) /\ ~ver[1].Primary
    /\ ver[1].Format # PreferredFormat
    /\ ver[2].Primary /\ ~EqualFold(ver[2].Format, PreferredFormat)
    /\ file = 1

OnlySafetensor ==
    /\ PreferredFormat = "pickle"
    /\ ver # <<>>
    /\ \A i \in DOMAIN ver : EqualFold(ver[i].Format, "safetensor")

FirstPrimary == CHOOSE i \in PrimaryFiles : \A j \in PrimaryFiles : i <= j

Declared == ver[file].BLAKE3

\* C7: once the body was streamed completely, Download succeeds exactly
\* when the digest of the written bytes equals the declared one up to case,
\* and then the destination holds those bytes; on a mismatch it fails with
\* ErrFileHashNotMatch and no file is left at the destination. Download
\* never succeeds leaving a file whose digest differs from the declared one.
C7_Integrity ==
    dpc = "done" =>
        /\ (derr = "nil" =>
              /\ dest \in DOMAIN fs
              /\ EqualFold(Blake3Hex(fs[dest]), Declared))
        /\ (body.streamed = "complete" =>
              IF EqualFold(Blake3Hex(body.content), Declared)
              THEN derr = "nil" /\ dest \in DOMAIN fs /\ fs[dest] = body.content
              ELSE derr = "ErrFileHashNotMatch" /\ dest \notin DOMAIN fs)

\* A complete body with another digest than the declared one was written
\* and removed again.
C7_Witness ==
    /\ dpc = "done"
    /\ body.streamed = "complete"
    /\ ~EqualFold(Blake3Hex(body.content), Declared)
    /\ derr = "ErrFileHashNotMatch"
    /\ dest \notin DOMAIN fs

\* C8: when the body fails partway, after the destination file was created,
\* no file is at the destination once Download has returned.
C8_NoPartialFile ==
    (dpc = "done" /\ body.streamed = "partial") => dest \notin DOMAIN fs

\* C9: when a file is at the destination path already, Download fails with
\* the "already exists" error and leaves that file as it was; no file that
\* was on disk before the download is ever changed or removed.
C9_ExistingFileKept ==
    /\ \A q \in DOMAIN fs0 : q \in DOMAIN fs /\ fs[q] = fs0[q]
    /\ (dpc \in {"verify", "done"} /\ hdr = "named" /\ dest \in DOMAIN fs0) =>
          dpc = "done" /\ derr = "ErrExist" /\ fs = fs0

C9_Witness ==
    /\ dpc = "done"
    /\ hdr = "named"
    /\ dest \in DOMAIN fs0
    /\ derr = "ErrExist"
    /\ fs[dest] = "old"

\* C10: when the response declares no filename (no Content-Disposition
\* header, one that does not parse, or one without a filename parameter)
\* Download fails with ErrNoFilename and writes nothing.
C10_NoFilename ==
    (dpc = "done" /\ hdr \in {"absent", "malformed", "plain"}) =>
        derr = "ErrNoFilename" /\ fs = fs0

\* C11: a response whose status is not the success status makes Download
\* fail with ErrGetFailure carrying that status; the header is not read, no
\* byte of the body is written, and the disk is as it was before the call.
C11_NonSuccessStatus ==
    (status # 0 /\ status # 200) =>
        /\ dpc = "done"
        /\ derr = "ErrGetFailure"
        /\ errStatus = status
        /\ hdr = "none"
        /\ name = <<>>
        /\ body.streamed = "none"
        /\ fs = fs0

C11_Witness ==
    /\ status = 404
    /\ derr = "ErrGetFailure"
    /\ errStatus = 404
    /\ Join(dir, <<"m.safetensors">>) \notin DOMAIN fs

\* ------------------------------------------------- Update.run and run()
\* Largest number of candidates of one Update.
MaxCand == 2
\* Largest number of Updates one directory yields.
MaxUpdates == 2

\* The errors Client.Download returns.
DownloadErrors ==
    {"ErrFileNotFound", "transport", "ErrGetFailure", "ErrNoFilename",
     "ErrExist", "create", "copy", "ErrFileHashNotMatch"}

\* The Updates of model m: its candidates are keyed by version name.
UpdatesOf(m) ==
    {[ModelName |-> m, CurrentVersion |-> 0,
      Candidates |-> [n \in S |-> [ID |-> n, ModelID |-> m, Name |-> n, PublishedAt |-> n]]] :
        S \in SUBSET (1..MaxCand)}

\* The Updates findUpdatesFromDir returns have at least one candidate
\* (update.go 174-180); the one findUpdate returns may have none.
UpdatesIn(kind, m) ==
    IF kind = "dir" THEN {u \in UpdatesOf(m) : DOMAIN u.Candidates # {}} ELSE UpdatesOf(m)

\* What the user can answer to the prompt of an Update; outside a prompt
\* there is nothing to answer.
Answers(u) ==
    LET c == DOMAIN u.Candidates IN
    IF c = {} THEN {[kind |-> "none", selected |-> <<>>]}
    ELSE IF Cardinality(c) = 1
    THEN [kind : {"yes", "no", "interrupt", "ioerr"}, selected : {<<>>}]
    ELSE [kind : {"interrupt", "ioerr"}, selected : {<<>>}]
         \cup {[kind |-> "chosen", selected |-> q] : q \in UNION {SetToSeqs(S) : S \in SUBSET c}}

\* survey.AskOne returns terminal.InterruptErr or another error.
askErr(kind) ==
    IF kind = "interrupt" THEN "interrupt" ELSE IF kind = "ioerr" THEN "prompt" ELSE "nil"

\* update.go 236-241 (and 211-213): Download is called for the names of sel
\* in order; out[n] is what Download returns for name n.
RECURSIVE downloadAll(_, _, _)
downloadAll(sel, out, acc) ==
    IF sel = <<>> THEN acc
    ELSE LET n == Head(sel)
             a == [acc EXCEPT !.attempted = Append(@, n)]
         IN IF out[n] # "nil" THEN [a EXCEPT !.err = out[n]]
            ELSE downloadAll(Tail(sel), out, [a EXCEPT !.fetched = @ \cup {n}])

NoResult ==
    [prompts |-> <<>>, attempted |-> <<>>, fetched |-> {}, said |-> "none", err |-> "nil"]

\* update.go 194-197: the name of the one candidate.
onlyCandidate(u) == CHOOSE n \in DOMAIN u.Candidates : TRUE

\* update.go 188-190 with the prompt of the default case asked.
runNoneAsks(u) == [NoResult EXCEPT !.prompts = <<"multi">>, !.said = "skipped"]

\* update.go 188-190: no candidates.
runNone(u) == [NoResult EXCEPT !.said = "no updates"]

\* update.go 192-213 downloading whatever the confirmation says.
runOneAnyAnswer(u, ans, out) ==
    LET asked == [NoResult EXCEPT !.prompts = <<"confirm">>] IN
    IF askErr(ans.kind) # "nil" THEN [asked EXCEPT !.err = askErr(ans.kind)]
    ELSE downloadAll(<<onlyCandidate(u)>>, out, asked)

\* update.go 192-213: one candidate.
runOne(u, ans, out) ==
    LET asked == [NoResult EXCEPT !.prompts = <<"confirm">>] IN
    IF askErr(ans.kind) # "nil" THEN [asked EXCEPT !.err = askErr(ans.kind)]
    ELSE IF ans.kind # "yes" THEN [asked EXCEPT !.said = "skipped"]
    ELSE downloadAll(<<onlyCandidate(u)>>, out, asked)

\* update.go 215-242: several candidates.
runMany(u, ans, out) ==
    LET asked == [NoResult EXCEPT !.prompts = <<"multi">>] IN
    IF askErr(ans.kind) # "nil" THEN [asked EXCEPT !.err = askErr(ans.kind)]
    ELSE IF Len(ans.selected) = 0 THEN [asked EXCEPT !.said = "skipped"]
    ELSE downloadAll(ans.selected, out, asked)

\* update.go 186-245 Update.run
updateRun(u, ans, out) ==
    LET k == Cardinality(DOMAIN u.Candidates) IN
    IF k = 0 THEN runNone(u)
    ELSE IF k = 1 THEN runOne(u, ans, out)
    ELSE runMany(u, ans, out)

\* main.go 102-106 and 119-123 with the interrupt handled as every other
\* error of Update.run.
afterRunContinue(err) ==
    IF err = "nil" THEN [return |-> FALSE, report |-> "none"]
    ELSE [return |-> FALSE, report |-> "update failed"]

\* main.go 102-106 and 119-123: what run() does with the error of Update.run.
afterRun(err) ==
    IF err = "nil" THEN [return |-> FALSE, report |-> "none"]
    ELSE IF err = "interrupt" THEN [return |-> TRUE, report |-> "none"]
    ELSE [return |-> FALSE, report |-> "update failed"]

\* The errors findUpdate and findUpdatesFromDir return.
FindErrors == {"nil", "404", "transport", "io"}

InitRunner ==
    /\ RunIdle
    /\ DownloadIdle
    /\ SortIdle
    /\ upc = "loop"
    /\ umode = "none"
    /\ nUpdates = 0
    /\ ulog = NoRun
    /\ report = "none"
    /\ interrupted = FALSE
    /\ ucode = -1
    /\ cause = "none"

\* main.go 81-84: os.Stat of the target fails, run returns the error and
\* main exits with status 1.
StatFails ==
    /\ upc = "loop"
    /\ upc' = "exit"
    /\ ucode' = 1
    /\ cause' = "stat"
    /\ umode' = "none"
    /\ ulog' = NoRun
    /\ report' = "none"
    /\ UNCHANGED <<nUpdates, interrupted>>
    /\ UNCHANGED <<rvars, dvars, svars>>

\* main.go 86-99: a file target, up to the call of Update.run.
FileUpdate ==
    /\ upc = "loop"
    /\ umode' = "file"
    /\ ulog' = NoRun
    /\ \E err \in FindErrors :
         IF IsNotFound(err)
         THEN upc' = "loop" /\ nUpdates' = 0 /\ report' = "not found"
         ELSE IF err # "nil"
         THEN upc' = "loop" /\ nUpdates' = 0 /\ report' = "find failed"
         ELSE upc' = "updates" /\ nUpdates' = 1 /\ report' = "none"
    /\ UNCHANGED <<interrupted, ucode, cause>>
    /\ UNCHANGED <<rvars, dvars, svars>>

\* main.go 108-116: a directory target, up to the loop over its Updates.
DirUpdate ==
    /\ upc = "loop"
    /\ umode' = "dir"
    /\ ulog' = NoRun
    /\ \E err \in FindErrors, k \in 0..MaxUpdates :
         IF err # "nil"
         THEN upc' = "loop" /\ nUpdates' = 0 /\ report' = "find failed"
         ELSE /\ upc' = IF k = 0 THEN "loop" ELSE "updates"
              /\ nUpdates' = k
              /\ report' = "none"
    /\ UNCHANGED <<interrupted, ucode, cause>>
    /\ UNCHANGED <<rvars, dvars, svars>>

\* main.go 101-106 and 117-124: Update.run of the next Update of the target
\* and what run() does with its error.
RunUpdate ==
    /\ upc = "updates"
    /\ \E u \in UpdatesIn(umode, nUpdates) :
       \E ans \in Answers(u), e \in DownloadErrors, failing \in SUBSET DOMAIN u.Candidates :
         LET out == [n \in DOMAIN u.Candidates |-> IF n \in failing THEN e ELSE "nil"]
             res == updateRun(u, ans, out)
             h == afterRun(res.err)
         IN /\ ulog' = [ran |-> TRUE, cands |-> DOMAIN u.Candidates, answer |-> ans.kind,
                        selected |-> ans.selected, prompts |-> res.prompts,
                        attempted |-> res.attempted, fetched |-> res.fetched,
                        said |-> res.said, err |-> res.err]
            /\ interrupted' = (interrupted \/ ans.kind = "interrupt")
            /\ report' = h.report
            /\ nUpdates' = nUpdates - 1
            /\ IF h.return
               THEN upc' = "exit" /\ ucode' = 1 /\ cause' = "interrupt"
               ELSE /\ upc' = IF nUpdates = 1 THEN "loop" ELSE "updates"
                    /\ UNCHANGED <<ucode, cause>>
    /\ UNCHANGED umode
    /\ UNCHANGED <<rvars, dvars, svars>>

\* main.go 129 and 132-138: every target is done, the process exits with 0.
RunnerReturn ==
    /\ upc = "loop"
    /\ upc' = "exit"
    /\ ucode' = 0
    /\ umode' = "none"
    /\ ulog' = NoRun
    /\ report' = "none"
    /\ UNCHANGED <<nUpdates, interrupted, cause>>
    /\ UNCHANGED <<rvars, dvars, svars>>

NextRunner == StatFails \/ FileUpdate \/ DirUpdate \/ RunUpdate \/ RunnerReturn

SpecRunner == InitRunner /\ [][NextRunner]_vars

\* ------------------------------------------------------- claims on run()
\* C12: Update.run of an Update without candidates asks nothing, downloads
\* nothing and returns at once saying that there are no updates; run() goes
\* on to its next target.
C12_NoCandidates ==
    (ulog.ran /\ ulog.cands = {}) =>
        /\ ulog.prompts = <<>>
        /\ ulog.attempted = <<>>
        /\ ulog.fetched = {}
        /\ ulog.said = "no updates"
        /\ ulog.err = "nil"
        /\ upc = "loop"

C12_Witness ==
    /\ ulog.ran
    /\ ulog.cands = {}
    /\ ulog.said = "no updates"
    /\ umode = "file"
    /\ upc = "loop"

\* C13: Download is called only for what the user chose: not at all after a
\* negative confirmation of the one candidate or an empty selection among
\* several, and otherwise only for the confirmed candidate or for names of
\* the selection.
C13_OnlyChosenDownloaded ==
    ulog.ran =>
        /\ (Cardinality(ulog.cands) = 1 /\ ulog.answer = "no") =>
               (ulog.attempted = <<>> /\ ulog.fetched = {})
        /\ (Cardinality(ulog.cands) > 1 /\ ulog.answer = "chosen" /\ ulog.selected = <<>>) =>
               (ulog.attempted = <<>> /\ ulog.fetched = {})
        /\ (Cardinality(ulog.cands) = 1 /\ ulog.attempted # <<>>) => ulog.answer = "yes"
        /\ Cardinality(ulog.cands) > 1 => Range(ulog.attempted) \subseteq Range(ulog.selected)
        /\ ulog.fetched \subseteq Range(ulog.attempted)
        /\ Range(ulog.attempted) \subseteq ulog.cands

C13_Witness ==
    /\ ulog.ran
    /\ ulog.cands = {1, 2}
    /\ ulog.selected = <<2>>
    /\ ulog.attempted = <<2>>
    /\ ulog.fetched = {2}

\* C14: after a successful fetch Update.run asks a last confirmation, the one
\* that decides on the removal of the original local file.
C14_RemovalConfirmed ==
    (ulog.ran /\ ulog.fetched # {}) =>
        (ulog.prompts # <<>> /\ ulog.prompts[Len(ulog.prompts)] = "remove")

\* C15: an interrupt at a prompt ends the run at once: Update.run returns
\* before any download, run() returns, the process exits with status 1, and
\* nothing is asked, downloaded or resolved for what remains.
C15_InterruptAborts ==
    /\ [](interrupted =>
            /\ upc = "exit"
            /\ ucode = 1
            /\ cause = "interrupt"
            /\ ulog.answer = "interrupt"
            /\ ulog.attempted = <<>>)
    /\ [][interrupted => UNCHANGED uvars]_vars

C15_Witness ==
    /\ interrupted
    /\ upc = "exit"
    /\ ucode = 1
    /\ umode = "dir"
    /\ nUpdates > 0

\* C16: every failure of Update.run other than the interrupt is reported
\* and run() goes on; the interrupt is the only failure that makes the
\* process exit with an error before all targets are done.
C16_OnlyCancellationEndsRun ==
    /\ (ulog.ran /\ ulog.err \notin {"nil", "interrupt"}) =>
           (report = "update failed" /\ upc # "exit")
    /\ ucode = 1 => cause = "interrupt"

\* C17: with several candidates Download is called for every name of the
\* selection, whatever the download of another selected name returned.
C17_EverySelectedAttempted ==
    (ulog.ran /\ Cardinality(ulog.cands) > 1 /\ ulog.answer = "chosen") =>
        Range(ulog.attempted) = Range(ulog.selected)

\* ------------------------------------------------------ modelVersionList
\* Largest length of the list that is sorted.
MaxList == 3

\* The lists of version records: the record in slot i has ID i.
Lists ==
    UNION {{[i \in 1..n |-> [ID |-> i, ModelID |-> 1, Name |-> i, PublishedAt |-> t[i]]] :
              t \in [1..n -> Times]} : n \in 0..MaxList}

InitSort ==
    /\ RunIdle
    /\ DownloadIdle
    /\ RunnerIdle
    /\ list \in Lists
    /\ sorted = <<>>
    /\ less = [i |-> 0, j |-> 0, val |-> FALSE]

\* update.go 109-111: a call of Less on the list.
CallLess ==
    /\ \E i, j \in 1..Len(list) : less' = [i |-> i, j |-> j, val |-> Less(list, i, j)]
    /\ UNCHANGED <<list, sorted>>
    /\ UNCHANGED <<rvars, dvars, uvars>>

\* update.go 163, 166: sort.Sort(sort.Reverse(list)) of a list that is not empty.
SortList ==
    /\ list # <<>>
    /\ sorted' \in SortReverse(list)
    /\ UNCHANGED <<list, less>>
    /\ UNCHANGED <<rvars, dvars, uvars>>

NextSort == CallLess \/ SortList

SpecSort == InitSort /\ [][NextSort]_vars

\* C18: Less(i, j) holds exactly when the time of element i is strictly
\* before that of element j, so it is irreflexive and asymmetric and elements
\* of equal time are not less either way; the first element of a list sorted
\* by sort.Sort(sort.Reverse(list)) has the greatest time of the list.
C18_LessAndSort ==
    /\ less.i # 0 =>
          /\ less.val = (list[less.i].PublishedAt < list[less.j].PublishedAt)
          /\ less.i = less.j => ~less.val
          /\ less.val => ~(list[less.j].PublishedAt < list[less.i].PublishedAt)
          /\ list[less.i].PublishedAt = list[less.j].PublishedAt => ~less.val
    /\ sorted # <<>> =>
          /\ \A k \in 1..Len(list) : sorted[1].PublishedAt >= list[k].PublishedAt
          /\ \E k \in 1..Len(list) : sorted[1] = list[k]
          /\ Len(sorted) = Len(list)

C18_Witness ==
    /\ Len(list) = 3
    /\ list[1].PublishedAt = 2 /\ list[2].PublishedAt = 0 /\ list[3].PublishedAt = 1
    /\ less = [i |-> 2, j |-> 1, val |-> TRUE]
    /\ sorted # <<>> /\ sorted[1] = list[1]

\* C19: whatever file name the server declares, Download writes and removes
\* files only directly inside the directory it was given: every path whose
\* content differs from what was on disk before the call is a direct child
\* of dir.
C19_StaysInDir ==
    \A p \in DOMAIN fs \cup DOMAIN fs0 :
        (p \notin DOMAIN fs \/ p \notin DOMAIN fs0 \/ fs[p] # fs0[p]) =>
            (Len(p) = Len(dir) + 1 /\ Parent(p) = dir)

\* C20: in a directory target, a failure other than the 404 of a digest
\* while an entry is resolved, or a failure to fetch the version list of a
\* model, ends findUpdatesFromDir with an error and without any Update, so
\* that nothing of the directory is offered or downloaded; run() goes on
\* with its next target.
C20_DirFailureYieldsNoUpdates ==
    (mode = "dir" /\ walkLog.failure) =>
        /\ pc = "loop"
        /\ found.kind = "failed"
        /\ found.err # "nil"
        /\ found.updates = <<>>
        /\ exitCode = -1

C20_Witness ==
    /\ mode = "dir"
    /\ walkLog.failure
    /\ walkLog.resolved = 2
    /\ found.kind = "failed"
    /\ found.err = "transport"
    /\ pc = "loop"
    /\ \E k \in DOMAIN ms : Len(ms[k]) = 1

====
